---- MODULE Spec2Model ----
(***************************************************************************)
(* A model of gifsicle's xform.c: the colormap transform pipeline, the     *)
(* recolor transform, the external-process colormap transform, crop,       *)
(* rotate and the fixed-point scaler with resize_stream.                   *)
(*                                                                         *)
(* Each part of the file is exercised by its own specification; the        *)
(* variables of the other parts stay at their initial values there.        *)
(***************************************************************************)
EXTENDS Integers, Sequences, FiniteSets, TLC

VARIABLES
  list,      \* the Gt_ColorTransform list: a sequence of nodes [id, func, data]
  nalloc,    \* nodes allocated so far by Gif_New(Gt_ColorTransform)
  live,      \* history: ids appended and not deleted since, with their func
  global,    \* gfs->global: a colormap (sequence of Gif_Color) or NoCm
  locals,    \* gfs->images[i]->local, i = 0 .. nimages-1
  apc,       \* position of apply_color_transforms: "idle", "global", "image", "done"
  xform,     \* apply_color_transforms: index of the current node in list
  ai,        \* apply_color_transforms: the loop variable i
  calls,     \* the invocations xform->func(colormap, data) of the last apply
  lastReg,   \* history: the changes of the latest run of append_color_change calls
  cmap,      \* pipe_color_transformer: gfcm, the colormap it is called on
  pipe,      \* pipe_color_transformer: its position and locals (i, nc, status, new_cm)
  tmp_file,  \* the temporary file: whether it exists, and what it holds
  diag,      \* diagnostics emitted: error() and warning() calls, fatal_error
  hist,      \* history of the call: the colormap at entry, the outcome, and the
             \* accesses outside new_cm->col[0..ncol-1] and the colormap's col[0..ncol-1]
  gfs,       \* the Gif_Stream of the geometric operations: screen size and images
  gfs0,      \* history: the stream when the operation under way was called
  crop_call, \* crop_image: the arguments and return value of the last call
  rot_hist,  \* history: the rotations applied so far
  rs,        \* resize_stream: its position, arguments and locals
  sc         \* scale_image: its position and locals

xformVars == <<list, nalloc, live, global, locals, apc, xform, ai, calls, lastReg>>
pipeVars == <<cmap, pipe, tmp_file, diag, hist>>
geoVars == <<gfs, gfs0, crop_call, rot_hist, rs, sc>>
vars == <<xformVars, pipeVars, geoVars>>
outsideXform == <<pipeVars, geoVars>>
outsidePipe == <<xformVars, geoVars>>
outsideGeo == <<xformVars, pipeVars>>

(***************************************************************************)
(* Bounds of the model                                                     *)
(***************************************************************************)
MaxNodes == 2
MaxChanges == 2
MaxImages == 2

(***************************************************************************)
(* Colors and colormaps                                                    *)
(***************************************************************************)
\* A Gif_Colormap pointer: null, or a colormap of ncol entries col[0 .. ncol-1]
\* (col is 1-based here: col[k] is the code's col[k-1]).
NoCm == [null |-> TRUE, ncol |-> 0, col |-> <<>>]
Colormap(col) == [null |-> FALSE, ncol |-> Len(col), col |-> col]

\* A Gif_Color: haspixel, the rgb triple and the pixel slot.
Color(hp, r, g, b, px) == [haspixel |-> hp, red |-> r, green |-> g, blue |-> b, pixel |-> px]

Red == Color(0, 255, 0, 0, 0)
Green == Color(0, 0, 255, 0, 0)
Blue == Color(0, 0, 0, 255, 0)

GIF_COLOREQ(c1, c2) ==
  c1.red = c2.red /\ c1.green = c2.green /\ c1.blue = c2.blue


\* The two transform functions of the file, as function identifiers.
color_change_transformer == "color_change_transformer"
pipe_color_transformer == "pipe_color_transformer"
Funcs == {color_change_transformer, pipe_color_transformer}

\* An old color pinned to pixel slot px (haspixel set; its rgb is not compared).
Slot(px) == Color(1, 0, 0, 0, px)

NCol == 2
PaletteSet == {Colormap([k \in 1 .. NCol |-> Red]),
               Colormap([k \in 1 .. NCol |-> IF k = 1 THEN Red ELSE Green])}
\* the color changes a caller registers: Gt_ColorChange entries (old, new)
Change(old_color, new_color) == [old_color |-> old_color, new_color |-> new_color]
ChangeSet == {Change(Red, Blue), Change(Red, Green), Change(Green, Blue),
              Change(Slot(NCol - 1), Green)}
Commands == {"false"}

\* The payload (void *data) of a node: the head of a Gt_ColorChange list for a
\* recolor node, the command string for a pipe node.
ChangeData(changes) == [changes |-> changes, command |-> ""]
CommandData(command) == [changes |-> <<>>, command |-> command]

(***************************************************************************)
(* color_change_transformer                                                *)
(***************************************************************************)
\* the test of one change against entry i: lines 94-97
Have(col_i, i, change) ==
  IF change.old_color.haspixel = 0
    THEN GIF_COLOREQ(col_i, change.old_color)
    ELSE change.old_color.pixel = i

\* the inner loop over the change list for entry i, from `changes` on
RECURSIVE ScanChanges(_, _, _)
ScanChanges(col_i, i, changes) ==
  IF changes = <<>> THEN col_i
  ELSE IF Have(col_i, i, Head(changes)) THEN Head(changes).new_color
  ELSE ScanChanges(col_i, i, Tail(changes))

\* a scan that does not stop at the first match: the last matching change wins
RECURSIVE ScanChangesNoBreak(_, _, _)
ScanChangesNoBreak(col_i, i, changes) ==
  IF changes = <<>> THEN col_i
  ELSE IF Have(col_i, i, Head(changes))
    THEN ScanChangesNoBreak(Head(changes).new_color, i, Tail(changes))
  ELSE ScanChangesNoBreak(col_i, i, Tail(changes))

ColorChangeTransformerNoBreak(gfcm, thunk) ==
  [gfcm EXCEPT !.col =
     [k \in 1 .. gfcm.ncol |-> ScanChangesNoBreak(gfcm.col[k], k - 1, thunk)]]

\* the outer loop: i = 0 .. ncol-1
ColorChangeTransformer(gfcm, thunk) ==
  [gfcm EXCEPT !.col =
     [k \in 1 .. gfcm.ncol |-> ScanChanges(gfcm.col[k], k - 1, thunk)]]

\* xform->func(colormap, xform->data).  The command of a pipe node in this
\* part of the model is one that exits with a failure status, after which
\* pipe_color_transformer leaves the colormap as it was (see PipeSpec for
\* the transformer itself).
Invoke(node, gfcm) ==
  IF node.func = color_change_transformer
    THEN ColorChangeTransformer(gfcm, node.data.changes)
    ELSE gfcm

(***************************************************************************)
(* append_color_transform, delete_color_transforms, append_color_change    *)
(***************************************************************************)
\* the list after append_color_transform(list, func, data); id names the
\* node Gif_New returned
AppendTransformFront(l, id, func, data) ==
  <<[id |-> id, func |-> func, data |-> data]>> \o l

AppendColorTransform(l, id, func, data) ==
  l \o <<[id |-> id, func |-> func, data |-> data]>>

\* the walk of delete_color_transforms from trav on
RECURSIVE DeleteWalk(_, _)
DeleteWalk(trav, func) ==
  IF trav = <<>> THEN <<>>
  ELSE IF Head(trav).func = func THEN DeleteWalk(Tail(trav), func)
  ELSE <<Head(trav)>> \o DeleteWalk(Tail(trav), func)

DeleteColorTransforms(l, func) == DeleteWalk(l, func)

\* the list after append_color_change(list, old_color, new_color)
AppendColorChange(l, id, old_color, new_color) ==
  LET change == [old_color |-> old_color, new_color |-> new_color]
      n == Len(l)
  IN IF n = 0 \/ l[n].func # color_change_transformer
       THEN AppendColorTransform(l, id, color_change_transformer,
                                 ChangeData(<<change>>))
       ELSE [l EXCEPT ![n].data.changes = Append(@, change)]


(***************************************************************************)
(* The pipeline's operations as actions                                    *)
(***************************************************************************)
\* the list is built while the options are read, before the stream is
\* transformed
Idle == apc = "idle"

RECURSIVE NChanges(_)
NChanges(l) ==
  IF l = <<>> THEN 0 ELSE Len(Head(l).data.changes) + NChanges(Tail(l))

\* the payloads a caller passes with each function
DataFor(func) ==
  IF func = pipe_color_transformer
    THEN {CommandData(command) : command \in Commands}
    ELSE {ChangeData(<<Change(Red, Green)>>)}

\* append_color_transform(list, func, data)
AppendTransform ==
  /\ Idle /\ nalloc < MaxNodes
  /\ \E func \in Funcs :
       /\ \E data \in DataFor(func) :
            list' = AppendColorTransform(list, nalloc + 1, func, data)
       /\ live' = live \cup {<<nalloc + 1, func>>}
  /\ nalloc' = nalloc + 1
  /\ lastReg' = <<>>
  /\ UNCHANGED <<global, locals, apc, xform, ai, calls>>
  /\ UNCHANGED outsideXform

\* a caller registers a color change: append_color_change(list, old, new)
AppendChange ==
  /\ Idle /\ NChanges(list) < MaxChanges
  /\ (list = <<>> \/ list[Len(list)].func # color_change_transformer)
       => nalloc < MaxNodes
  /\ \E change \in ChangeSet :
       /\ list' = AppendColorChange(list, nalloc + 1, change.old_color, change.new_color)
       /\ lastReg' = Append(lastReg, change)
  \* Gif_New(Gt_ColorTransform) is reached only when a node is appended
  /\ nalloc' = IF Len(list') > Len(list) THEN nalloc + 1 ELSE nalloc
  /\ live' = IF Len(list') > Len(list)
               THEN live \cup {<<nalloc + 1, color_change_transformer>>}
               ELSE live
  /\ UNCHANGED <<global, locals, apc, xform, ai, calls>>
  /\ UNCHANGED outsideXform

\* delete_color_transforms(list, func)
Delete ==
  /\ Idle /\ list # <<>>
  /\ \E func \in Funcs :
       /\ list' = DeleteColorTransforms(list, func)
       /\ live' = {e \in live : e[2] # func}
  /\ lastReg' = <<>>
  /\ UNCHANGED <<nalloc, global, locals, apc, xform, ai, calls>>
  /\ UNCHANGED outsideXform

\* apply_color_transforms: entry, xform = list
ApplyStart ==
  /\ Idle
  /\ calls' = <<>>
  /\ xform' = 1
  /\ ai' = 0
  /\ apc' = IF list = <<>> THEN "done" ELSE "global"
  /\ UNCHANGED <<list, nalloc, live, lastReg, global, locals>>
  /\ UNCHANGED outsideXform

Call(node, target, gfcm) ==
  [node |-> node.id, func |-> node.func, data |-> node.data,
   target |-> target, before |-> gfcm, after |-> Invoke(node, gfcm)]

\* lines 69-70
ApplyGlobal ==
  /\ apc = "global"
  /\ IF global # NoCm
       THEN /\ global' = Invoke(list[xform], global)
            /\ calls' = Append(calls, Call(list[xform], -1, global))
       ELSE UNCHANGED <<global, calls>>
  /\ apc' = "image"
  /\ ai' = 0
  /\ UNCHANGED <<list, nalloc, live, lastReg, locals, xform>>
  /\ UNCHANGED outsideXform

\* lines 71-73: one iteration of the loop over the images
ApplyImage ==
  /\ apc = "image" /\ ai < Len(locals)
  /\ IF locals[ai + 1] # NoCm
       THEN /\ locals' = [locals EXCEPT ![ai + 1] = Invoke(list[xform], @)]
            /\ calls' = Append(calls, Call(list[xform], ai, locals[ai + 1]))
       ELSE UNCHANGED <<locals, calls>>
  /\ ai' = ai + 1
  /\ UNCHANGED <<list, nalloc, live, lastReg, global, apc, xform>>
  /\ UNCHANGED outsideXform

\* line 68: xform = xform->next
ApplyNext ==
  /\ apc = "image" /\ ai = Len(locals)
  /\ xform' = xform + 1
  /\ apc' = IF xform + 1 > Len(list) THEN "done" ELSE "global"
  /\ UNCHANGED <<list, nalloc, live, lastReg, global, locals, ai, calls>>
  /\ UNCHANGED outsideXform


(***************************************************************************)
(* The streams the pipeline is applied to                                  *)
(***************************************************************************)
CmOrNone == PaletteSet \cup {NoCm}

RECURSIVE SeqsUpTo(_, _)
SeqsUpTo(S, n) ==
  IF n = 0 THEN {<<>>}
  ELSE LET shorter == SeqsUpTo(S, n - 1)
       IN shorter \cup {Append(q, x) : q \in {r \in shorter : Len(r) = n - 1}, x \in S}

\* the initial values of the variables a specification does not use
XformUnused ==
  /\ list = <<>> /\ nalloc = 0 /\ live = {} /\ lastReg = <<>>
  /\ global = NoCm /\ locals = <<>>
  /\ apc = "idle" /\ xform = 0 /\ ai = 0 /\ calls = <<>>

PipeUnused ==
  /\ cmap = NoCm
  /\ pipe = [pc |-> "unused"]
  /\ tmp_file = [exists |-> FALSE]
  /\ diag = [errors |-> 0, warnings |-> 0, fatal |-> FALSE]
  /\ hist = [outcome |-> "none"]

GeoUnused ==
  /\ gfs = [screen_width |-> 0, screen_height |-> 0, images |-> <<>>]
  /\ gfs0 = gfs
  /\ crop_call = [pc |-> "unused"]
  /\ rot_hist = <<>>
  /\ rs = [pc |-> "unused"]
  /\ sc = [pc |-> "unused"]

XformInit ==
  /\ PipeUnused /\ GeoUnused
  /\ list = <<>>
  /\ nalloc = 0
  /\ live = {}
  /\ lastReg = <<>>
  /\ global \in CmOrNone
  /\ locals \in SeqsUpTo(CmOrNone, MaxImages)
  /\ apc = "idle"
  /\ xform = 0
  /\ ai = 0
  /\ calls = <<>>

XformNext ==
  \/ AppendTransform
  \/ AppendChange
  \/ Delete
  \/ ApplyStart
  \/ ApplyGlobal
  \/ ApplyImage
  \/ ApplyNext

XformSpec == XformInit /\ [][XformNext]_vars


(***************************************************************************)
(* Claims about the pipeline and the recolor transform                     *)
(***************************************************************************)
Min(S) == CHOOSE m \in S : \A n \in S : m <= n

\* position of the node with this id in the list
Pos(id) == CHOOSE k \in 1 .. Len(list) : list[k].id = id

\* the colormaps of the stream, in the order of one pass: -1 is the global
\* colormap, i >= 0 the local colormap of image i
Present(target) ==
  IF target = -1 THEN ~global.null ELSE ~locals[target + 1].null

Targets == {t \in -1 .. Len(locals) - 1 : Present(t)}

\* the invocations apply_color_transforms has made when it stands at node
\* xform and loop position (apc, ai)
Passed(k, t) ==
  \/ k < xform
  \/ k = xform /\ apc = "image" /\ t < ai

Matches(change, c, i) ==
  \/ /\ change.old_color.haspixel = 0
     /\ <<change.old_color.red, change.old_color.green, change.old_color.blue>>
          = <<c.red, c.green, c.blue>>
  \/ /\ change.old_color.haspixel # 0
     /\ change.old_color.pixel = i

FirstRegisteredWins(before, after, changes) ==
  /\ after.ncol = before.ncol
  /\ \A i \in 0 .. before.ncol - 1 :
       LET M == {k \in 1 .. Len(changes) : Matches(changes[k], before.col[i + 1], i)}
       IN after.col[i + 1] =
            IF M = {} THEN before.col[i + 1] ELSE changes[Min(M)].new_color

IsSuffix(s, t) ==
  /\ Len(s) <= Len(t)
  /\ \A k \in 1 .. Len(s) : s[k] = t[Len(t) - Len(s) + k]

\* C6: consecutive append_color_change calls are merged, in order, into the
\* one recolor node at the tail; applying a recolor node replaces each entry
\* by the new color of the earliest registered change that matches it and
\* leaves the other entries alone; with red->blue registered before
\* red->green every red entry turns blue.
C6_FirstRegisteredWins ==
  /\ lastReg # <<>> =>
       /\ list # <<>>
       /\ list[Len(list)].func = color_change_transformer
       /\ IsSuffix(lastReg, list[Len(list)].data.changes)
  /\ \A c \in 1 .. Len(calls) :
       calls[c].func = color_change_transformer =>
         /\ FirstRegisteredWins(calls[c].before, calls[c].after, calls[c].data.changes)
         /\ calls[c].data.changes = <<Change(Red, Blue), Change(Red, Green)>> =>
              \A k \in 1 .. calls[c].before.ncol :
                calls[c].before.col[k] = Red => calls[c].after.col[k] = Blue

\* red->blue then red->green, registered by two calls, has been applied to a
\* colormap with a red entry
C6_Witness ==
  /\ lastReg = <<Change(Red, Blue), Change(Red, Green)>>
  /\ \E c \in 1 .. Len(calls) :
       /\ calls[c].data.changes = lastReg
       /\ calls[c].before.col[1] = Red
       /\ calls[c].after.col[1] = Blue


(***************************************************************************)
(* pipe_color_transformer                                                  *)
(***************************************************************************)
MaxParsed == 3

\* what the external command can leave in the temporary file: nothing, text
\* that is no colormap, or a colormap of P >= 1 entries
ParsedColors == {Green, Blue}
ParsedColormaps == {Colormap(q) : q \in {r \in SeqsUpTo(ParsedColors, MaxParsed) : Len(r) >= 1}}
Outputs ==
  {[kind |-> "empty", cm |-> NoCm], [kind |-> "garbage", cm |-> NoCm]}
    \cup {[kind |-> "colormap", cm |-> cm] : cm \in ParsedColormaps}

\* the value of an entry of new_cm->col past new_cm->ncol: not initialized by
\* the parser, so any color
Uninitialized == {Red, Color(0, 1, 2, 3, 0)}

\* read_colormap_file(name, f): the colormap the file holds, or null when the
\* file does not hold one
ReadColormapFile(content) ==
  IF content.kind = "colormap" THEN content.cm ELSE NoCm

\* feof(f) of a stream just opened: the end-of-file indicator is set only by
\* a read that hits the end
FeofAfterFopen == FALSE

\* fprintf(f, "%d %d %d\n", red, green, blue) for every entry: lines 163-164
ColormapText(cm) == [k \in 1 .. cm.ncol |-> <<cm.col[k].red, cm.col[k].green, cm.col[k].blue>>]

\* goto done
GotoDone(p) == [p EXCEPT !.pc = "done"]

\* a return that skips the cleanup at done
ReturnAtOnce(p) == [p EXCEPT !.pc = "returned"]

\* error(1, ...); goto done
ErrorExit(p) == GotoDone(p)

\* nc, the number of entries the copy loop runs over: lines 186-191
CopyCount(new_ncol, ncol) == IF new_ncol < ncol THEN ncol ELSE new_ncol

PipeCall ==
  /\ pipe.pc = "idle"
  /\ \E made \in BOOLEAN :
       IF made
         THEN /\ tmp_file' = [exists |-> TRUE, content |-> [kind |-> "empty", cm |-> NoCm]]
              /\ pipe' = [pipe EXCEPT !.pc = "popen"]
              /\ UNCHANGED diag
         ELSE \* fatal_error("can't create temporary file!")
              /\ diag' = [diag EXCEPT !.fatal = TRUE]
              /\ pipe' = [pipe EXCEPT !.pc = "fatal"]
              /\ UNCHANGED tmp_file
  /\ UNCHANGED <<cmap, hist>>
  /\ UNCHANGED outsidePipe

\* popen, and the loop that writes the colormap to the command
PipePopen ==
  /\ pipe.pc = "popen"
  /\ \E started \in BOOLEAN :
       IF started
         THEN /\ pipe' = [pipe EXCEPT !.pc = "pclose", !.sent = ColormapText(cmap)]
              /\ UNCHANGED diag
         ELSE \* fatal_error("can't run color transformation command")
              /\ diag' = [diag EXCEPT !.fatal = TRUE]
              /\ pipe' = [pipe EXCEPT !.pc = "fatal"]
  /\ UNCHANGED <<cmap, tmp_file, hist>>
  /\ UNCHANGED outsidePipe

\* status = pclose(f): the command has run, with its output redirected to the
\* temporary file (which it may also have removed): lines 166-174
PipePclose ==
  /\ pipe.pc = "pclose"
  /\ \E status \in {-1, 0, 1} :
       /\ \/ \E out \in Outputs : tmp_file' = [exists |-> TRUE, content |-> out]
          \/ tmp_file' = [exists |-> FALSE, content |-> [kind |-> "empty", cm |-> NoCm]]
       /\ IF status < 0
            THEN /\ diag' = [diag EXCEPT !.errors = @ + 1]
                 /\ pipe' = ErrorExit([pipe EXCEPT !.status = status])
                 /\ hist' = [hist EXCEPT !.outcome = "wait_failed"]
          ELSE IF status > 0
            THEN /\ diag' = [diag EXCEPT !.errors = @ + 1]
                 /\ pipe' = ErrorExit([pipe EXCEPT !.status = status])
                 /\ hist' = [hist EXCEPT !.outcome = "exit_failed"]
          ELSE /\ pipe' = [pipe EXCEPT !.status = status, !.pc = "fopen"]
               /\ UNCHANGED <<diag, hist>>
  /\ UNCHANGED cmap
  /\ UNCHANGED outsidePipe

\* f = fopen(tmp_file, "r"): lines 176-181
PipeFopen ==
  /\ pipe.pc = "fopen"
  /\ IF ~tmp_file.exists \/ FeofAfterFopen
       THEN /\ diag' = [diag EXCEPT !.errors = @ + 1]
            /\ pipe' = ErrorExit(pipe)
            /\ hist' = [hist EXCEPT !.outcome = "no_output"]
       ELSE /\ pipe' = [pipe EXCEPT !.pc = "read"]
            /\ UNCHANGED <<diag, hist>>
  /\ UNCHANGED <<cmap, tmp_file>>
  /\ UNCHANGED outsidePipe

\* new_cm = read_colormap_file(...), and lines 185-191
PipeRead ==
  /\ pipe.pc = "read"
  /\ LET new_cm == ReadColormapFile(tmp_file.content)
     IN IF new_cm.null
          THEN /\ pipe' = GotoDone([pipe EXCEPT !.new_cm = new_cm])
               /\ hist' = [hist EXCEPT !.outcome = "parse_failed"]
               /\ UNCHANGED diag
          ELSE /\ pipe' = [pipe EXCEPT !.new_cm = new_cm, !.pc = "copy", !.i = 0,
                                       !.nc = CopyCount(new_cm.ncol, cmap.ncol)]
               /\ hist' = [hist EXCEPT !.outcome = "success", !.parsed = new_cm]
               /\ diag' = IF new_cm.ncol # cmap.ncol
                            THEN [diag EXCEPT !.warnings = @ + 1]
                            ELSE diag
  /\ UNCHANGED <<cmap, tmp_file>>
  /\ UNCHANGED outsidePipe

\* one iteration of the loop of lines 192-193: col[i] = new_cm->col[i]
PipeCopy ==
  /\ pipe.pc = "copy" /\ pipe.i < pipe.nc
  /\ \E garbage \in Uninitialized :
       LET i == pipe.i
           value == IF i < pipe.new_cm.ncol THEN pipe.new_cm.col[i + 1] ELSE garbage
       IN /\ cmap' = IF i < cmap.ncol THEN [cmap EXCEPT !.col[i + 1] = value] ELSE cmap
          /\ hist' = [hist EXCEPT
                        !.read_past = IF i < pipe.new_cm.ncol THEN @ ELSE @ \cup {i},
                        !.written_past = IF i < cmap.ncol THEN @ ELSE @ \cup {i}]
  /\ pipe' = [pipe EXCEPT !.i = @ + 1]
  /\ UNCHANGED <<tmp_file, diag>>
  /\ UNCHANGED outsidePipe

PipeCopyEnd ==
  /\ pipe.pc = "copy" /\ pipe.i >= pipe.nc
  /\ pipe' = GotoDone(pipe)
  /\ UNCHANGED <<cmap, tmp_file, diag, hist>>
  /\ UNCHANGED outsidePipe

\* done: remove(tmp_file); Gif_DeleteColormap(new_cm)
PipeDone ==
  /\ pipe.pc = "done"
  /\ tmp_file' = [tmp_file EXCEPT !.exists = FALSE]
  /\ pipe' = [pipe EXCEPT !.pc = "returned", !.new_cm = NoCm]
  /\ UNCHANGED <<cmap, diag, hist>>
  /\ UNCHANGED outsidePipe

PipeInit ==
  /\ XformUnused /\ GeoUnused
  /\ cmap \in PaletteSet
  /\ pipe = [pc |-> "idle", i |-> 0, nc |-> 0, status |-> 0, new_cm |-> NoCm, sent |-> <<>>]
  /\ tmp_file = [exists |-> FALSE, content |-> [kind |-> "empty", cm |-> NoCm]]
  /\ diag = [errors |-> 0, warnings |-> 0, fatal |-> FALSE]
  /\ hist = [orig |-> cmap, outcome |-> "none", parsed |-> NoCm,
             read_past |-> {}, written_past |-> {}]

PipeNext ==
  \/ PipeCall
  \/ PipePopen
  \/ PipePclose
  \/ PipeFopen
  \/ PipeRead
  \/ PipeCopy
  \/ PipeCopyEnd
  \/ PipeDone

PipeSpec == PipeInit /\ [][PipeNext]_vars


(***************************************************************************)
(* Claims about pipe_color_transformer                                     *)
(***************************************************************************)
PipeFailures == {"wait_failed", "exit_failed", "no_output", "parse_failed"}
PipeOutcomes == PipeFailures \cup {"success"}

\* C2: on success with P parsed entries and N original ones, exactly the
\* entries i < min(P, N) are replaced by parsed entry i; no parsed entry at
\* an index >= P is read, no entry at an index >= N is written, a warning is
\* emitted when P # N, and the count N does not change.
C2_ReplacesCommonPrefix ==
  (pipe.pc = "returned" /\ hist.outcome = "success") =>
    LET P == hist.parsed.ncol
        N == hist.orig.ncol
    IN /\ cmap.ncol = N
       /\ \A i \in 0 .. N - 1 :
            cmap.col[i + 1] = IF i < P THEN hist.parsed.col[i + 1]
                                       ELSE hist.orig.col[i + 1]
       /\ hist.read_past = {}
       /\ hist.written_past = {}
       /\ diag.warnings = IF P # N THEN 1 ELSE 0

\* C3: once the temporary file has been created, every outcome that returns
\* has removed it; in each failure outcome the colormap is as it was at
\* entry, the exit-failure outcome has emitted exactly one error, and
\* control is on its way back to the caller (no fatal error).
C3_TempFileRemoved ==
  /\ pipe.pc = "returned" => ~tmp_file.exists
  /\ pipe.pc = "returned" => hist.outcome \in PipeOutcomes
  /\ hist.outcome \in PipeFailures =>
       /\ cmap = hist.orig
       /\ pipe.pc \in {"done", "returned"}
       /\ ~diag.fatal
       /\ pipe.pc = "done" => ENABLED PipeDone
  /\ hist.outcome = "exit_failed" => diag.errors = 1 /\ diag.warnings = 0

\* the command has exited with a failure status after writing to the
\* temporary file, and the transformer has returned
C3_Witness ==
  /\ pipe.pc = "returned"
  /\ hist.outcome = "exit_failed"
  /\ pipe.status = 1
  /\ tmp_file.content.kind = "colormap"


(***************************************************************************)
(* Images                                                                  *)
(*                                                                         *)
(* A Gif_Image: left, top, width, height, transparent, the uncompressed    *)
(* byte storage image_data and the row table img, whose entry for row j is *)
(* the offset into image_data where the row starts (the pointer img[j]);   *)
(* has_img tells whether img is non-null, compressed whether the image     *)
(* holds a compressed representation.                                      *)
(***************************************************************************)
MaxDim == 2
MaxOff == 1

\* the row table Gif_SetUncompressedImage builds over contiguous data
RowTable(width, height) == [j \in 1 .. height |-> (j - 1) * width]

Image(left, top, width, height) ==
  [left |-> left, top |-> top, width |-> width, height |-> height,
   transparent |-> -1, has_img |-> TRUE, compressed |-> FALSE,
   image_data |-> [k \in 1 .. width * height |-> 10 + k],
   img |-> RowTable(width, height)]

\* gfi->img[y][x]
Pixel(gfi, y, x) == gfi.image_data[gfi.img[y + 1] + x + 1]

\* Gif_ReleaseUncompressedImage, then Gif_SetUncompressedImage(gfi, data, ...)
SetUncompressedImage(gfi, data) ==
  [gfi EXCEPT !.image_data = data, !.img = RowTable(gfi.width, gfi.height),
              !.has_img = TRUE]

Images == {Image(l, t, w, h) : l \in 0 .. MaxOff, t \in 0 .. MaxOff,
                               w \in 1 .. MaxDim, h \in 1 .. MaxDim}

(***************************************************************************)
(* combine_crop and crop_image                                             *)
(***************************************************************************)
\* dstcrop after combine_crop(dstcrop, srccrop, gfi)
CombineCrop(srccrop, gfi) ==
  LET x0 == srccrop.x - gfi.left
      y0 == srccrop.y - gfi.top
      w1 == IF x0 < 0 THEN srccrop.w + x0 ELSE srccrop.w
      x1 == IF x0 < 0 THEN 0 ELSE x0
      h1 == IF y0 < 0 THEN srccrop.h + y0 ELSE srccrop.h
      y1 == IF y0 < 0 THEN 0 ELSE y0
      w2 == IF x1 + w1 > gfi.width THEN gfi.width - x1 ELSE w1
      h2 == IF y1 + h1 > gfi.height THEN gfi.height - y1 ELSE h1
  IN [x |-> x1, y |-> y1, w |-> w2, h |-> h2]

\* the 1x1 branch taken without regard to preserve_total_crop
AlwaysKeepsFrame(preserve_total_crop) == TRUE

\* the test of line 244
KeepsFrame(preserve_total_crop) == preserve_total_crop

\* the image after crop_image(gfi, crop, preserve_total_crop)
CropImage(gfi, crop, preserve_total_crop) ==
  LET c == CombineCrop(crop, gfi)
  IN IF c.w > 0 /\ c.h > 0
       THEN [gfi EXCEPT !.img = [j \in 1 .. c.h |-> gfi.img[c.y + j] + c.x],
                        !.left = @ + c.x - crop.left_offset,
                        !.top = @ + c.y - crop.top_offset,
                        !.width = c.w, !.height = c.h]
     ELSE IF KeepsFrame(preserve_total_crop)
       THEN [gfi EXCEPT !.img = <<gfi.img[1]>>,
                        !.transparent = gfi.image_data[gfi.img[1] + 1],
                        !.width = 1, !.height = 1]
     ELSE [gfi EXCEPT !.img = <<>>, !.has_img = FALSE, !.width = 0, !.height = 0]

\* the return value: gfi->img != 0
CropReturn(gfi) == gfi.has_img

MaxCrop == 2

Crops == {[x |-> x, y |-> y, w |-> w, h |-> h, left_offset |-> lo, top_offset |-> to] :
            x \in 0 .. MaxCrop, y \in 0 .. MaxCrop, w \in 1 .. MaxDim, h \in 1 .. MaxDim,
            lo \in {0}, to \in {0}}

\* a caller crops the image it holds, and may crop the result once more; an
\* image crop_image has emptied is dropped by the caller and not cropped again
Crop ==
  /\ gfs.images[1].has_img
  /\ crop_call.pc # "idle" => ~crop_call.again
  /\ \E crop \in Crops, preserve_total_crop \in BOOLEAN :
       LET cropped == CropImage(gfs.images[1], crop, preserve_total_crop)
       IN /\ gfs' = [gfs EXCEPT !.images[1] = cropped]
          /\ crop_call' = [pc |-> "returned", again |-> crop_call.pc # "idle",
                           crop |-> crop,
                           preserve_total_crop |-> preserve_total_crop,
                           c |-> CombineCrop(crop, gfs.images[1]),
                           ret |-> CropReturn(cropped)]
  /\ gfs0' = gfs
  /\ UNCHANGED <<rot_hist, rs, sc>>
  /\ UNCHANGED outsideGeo

CropInit ==
  /\ XformUnused /\ PipeUnused
  /\ \E gfi \in Images :
       gfs = [screen_width |-> gfi.left + gfi.width,
              screen_height |-> gfi.top + gfi.height, images |-> <<gfi>>]
  /\ gfs0 = gfs
  /\ crop_call = [pc |-> "idle"]
  /\ rot_hist = <<>>
  /\ rs = [pc |-> "unused"]
  /\ sc = [pc |-> "unused"]

CropNext == Crop

CropSpec == CropInit /\ [][CropNext]_vars

\* C5: a crop rectangle that misses the image (combined width <= 0 or
\* combined height <= 0) leaves, without preserve_total_crop, an image with no
\* pixel buffer, width 0 and height 0 and returns false; with it, a 1x1 image
\* whose pixel is the original top-left pixel, which also becomes the
\* transparent index, and returns true.
C5_TotalCrop ==
  (crop_call.pc = "returned" /\ (crop_call.c.w <= 0 \/ crop_call.c.h <= 0)) =>
    LET gfi == gfs.images[1]
        old == gfs0.images[1]
    IN IF crop_call.preserve_total_crop
         THEN /\ crop_call.ret = TRUE
              /\ gfi.has_img /\ gfi.width = 1 /\ gfi.height = 1
              /\ Len(gfi.img) = 1
              /\ Pixel(gfi, 0, 0) = Pixel(old, 0, 0)
              /\ gfi.transparent = Pixel(old, 0, 0)
         ELSE /\ crop_call.ret = FALSE
              /\ ~gfi.has_img /\ gfi.width = 0 /\ gfi.height = 0

\* an image that had been cropped to its lower right part is cropped by a
\* rectangle that misses it, with preserve_total_crop
C5_Witness ==
  /\ crop_call.pc = "returned"
  /\ crop_call.c.w <= 0
  /\ crop_call.preserve_total_crop
  /\ gfs0.images[1].img[1] > 0
  /\ gfs.images[1].transparent = Pixel(gfs0.images[1], 0, 0)
  /\ gfs.images[1].transparent # 11

(***************************************************************************)
(* rotate_image                                                            *)
(***************************************************************************)
MaxRotations == 4

\* new_data as the loops of lines 316-318 and 324-326 fill it through trav++:
\* the k-th byte written (k = 1 ..) comes from column x, row y of the source
RotateData(gfi, rotation) ==
  LET width == gfi.width
      height == gfi.height
  IN [k \in 1 .. width * height |->
        LET outer == (k - 1) \div height
            inner == (k - 1) % height
            x == IF rotation = 1 THEN outer ELSE width - 1 - outer
            y == IF rotation = 1 THEN height - 1 - inner ELSE inner
        IN Pixel(gfi, y, x)]

\* the offsets with gfi->top left as it was
RotateOffsetsKeepTop(gfi, screen_width, screen_height, rotation) ==
  IF rotation = 1
    THEN [left |-> screen_height - (gfi.top + gfi.height), top |-> gfi.top]
    ELSE [left |-> gfi.top, top |-> screen_width - (gfi.left + gfi.width)]

\* gfi->left and gfi->top after lines 319-321 and 327-329
RotateOffsets(gfi, screen_width, screen_height, rotation) ==
  IF rotation = 1
    THEN [left |-> screen_height - (gfi.top + gfi.height), top |-> gfi.left]
    ELSE [left |-> gfi.top, top |-> screen_width - (gfi.left + gfi.width)]

\* the image after rotate_image(gfi, screen_width, screen_height, rotation)
RotateImage(gfi, screen_width, screen_height, rotation) ==
  LET new_data == RotateData(gfi, rotation)
      off == RotateOffsets(gfi, screen_width, screen_height, rotation)
  IN SetUncompressedImage([gfi EXCEPT !.left = off.left, !.top = off.top,
                                      !.width = gfi.height, !.height = gfi.width],
                          new_data)

\* the caller turns the screen with the frame
ExchangeScreen(s) ==
  [s EXCEPT !.screen_width = s.screen_height, !.screen_height = s.screen_width]

Rotations == {1, 3}

Rotate ==
  /\ Len(rot_hist) < MaxRotations
  /\ \E rotation \in Rotations :
       /\ gfs' = ExchangeScreen(
                   [gfs EXCEPT !.images[1] =
                      RotateImage(gfs.images[1], gfs.screen_width,
                                  gfs.screen_height, rotation)])
       /\ rot_hist' = Append(rot_hist, rotation)
  /\ UNCHANGED <<gfs0, crop_call, rs, sc>>
  /\ UNCHANGED outsideGeo

RotateInit ==
  /\ XformUnused /\ PipeUnused
  /\ \E gfi \in Images, sw \in 0 .. MaxDim + MaxOff, sh \in 0 .. MaxDim + MaxOff :
       gfs = [screen_width |-> sw, screen_height |-> sh, images |-> <<gfi>>]
  /\ gfs0 = gfs
  /\ crop_call = [pc |-> "unused"]
  /\ rot_hist = <<>>
  /\ rs = [pc |-> "unused"]
  /\ sc = [pc |-> "unused"]

RotateNext == Rotate

RotateSpec == RotateInit /\ [][RotateNext]_vars

\* C4: after four successive rotate_image calls with rotation 1, the screen
\* exchanged between calls, the frame has its original width, height, left
\* and top, and every pixel (row, column) has its original value.
C4_FourRotationsIdentity ==
  rot_hist = <<1, 1, 1, 1>> =>
    LET gfi == gfs.images[1]
        old == gfs0.images[1]
    IN /\ gfi.width = old.width /\ gfi.height = old.height
       /\ gfi.left = old.left /\ gfi.top = old.top
       /\ \A y \in 0 .. old.height - 1, x \in 0 .. old.width - 1 :
            Pixel(gfi, y, x) = Pixel(old, y, x)

\* four quarter turns of a frame that is not square, on a screen that is not
\* square, placed away from the diagonal
C4_Witness ==
  /\ rot_hist = <<1, 1, 1, 1>>
  /\ gfs0.images[1].width # gfs0.images[1].height
  /\ gfs0.images[1].left # gfs0.images[1].top
  /\ gfs0.screen_width # gfs0.screen_height
  /\ gfs.images[1].image_data = gfs0.images[1].image_data

(***************************************************************************)
(* scale_image                                                             *)
(***************************************************************************)
MaxTarget == 3

INT_MAX == 2147483647

\* d << 10, d >> 10 (an arithmetic shift: the floor of d / 1024), and the
\* rounding unscale
SCALE(d) == d * 1024
UNSCALE_NOROUND(d) == d \div 1024
UNSCALE(d) == UNSCALE_NOROUND(d + 512)
SCALE_FACTOR == SCALE(1)

\* A factor is the quotient num / den of two ints converted to double; the
\* model keeps the fraction.  (int)(SCALE_FACTOR * factor + 0.5):
ScaledStep(factor) ==
  (2 * SCALE_FACTOR * factor.num + factor.den) \div (2 * factor.den)

\* Gif_UncompressImage: the row table over the decoded bytes
Uncompress(gfi) ==
  [gfi EXCEPT !.has_img = TRUE, !.img = RowTable(gfi.width, gfi.height)]

\* an image held in compressed form only: gfi->img == 0
CompressedOnly(gfi) == [gfi EXCEPT !.has_img = FALSE, !.img = <<>>, !.compressed = TRUE]

\* the running scaled position with no correction at the last row or column
NoSnap(idx, n, scaled, edge) == scaled

\* lines 399 and 411: the last source row or column ends on the new edge
SnapLast(idx, n, scaled, edge) == IF idx = n - 1 THEN SCALE(edge) ELSE scaled

\* lines 427-428: gfi->left, gfi->top
InstalledEdge(step, d) == UNSCALE(step * d)

\* lines 348-392: the locals when the loop over the source rows starts
ScaleEnter(gfi, xfactor, yfactor) ==
  LET scaled_xstep == ScaledStep(xfactor)
      scaled_ystep == ScaledStep(yfactor)
      new_left == UNSCALE(scaled_xstep * gfi.left)
      new_top == UNSCALE(scaled_ystep * gfi.top)
      right0 == UNSCALE(scaled_xstep * (gfi.left + gfi.width))
      bottom0 == UNSCALE(scaled_ystep * (gfi.top + gfi.height))
      new_width == IF right0 - new_left <= 0 THEN 1 ELSE right0 - new_left
      new_right == IF right0 - new_left <= 0 THEN new_left + 1 ELSE right0
      new_height == IF bottom0 - new_top <= 0 THEN 1 ELSE bottom0 - new_top
      new_bottom == IF bottom0 - new_top <= 0 THEN new_top + 1 ELSE bottom0
  IN [pc |-> IF new_width > UNSCALE_NOROUND(INT_MAX)
                  \/ new_height > UNSCALE_NOROUND(INT_MAX)
               THEN "fatal" ELSE "row",
      scaled_xstep |-> scaled_xstep, scaled_ystep |-> scaled_ystep,
      new_left |-> new_left, new_top |-> new_top,
      new_right |-> new_right, new_bottom |-> new_bottom,
      new_width |-> new_width, new_height |-> new_height,
      was_compressed |-> ~gfi.has_img,
      j |-> 0, i |-> 0,
      new_x |-> new_left, new_y |-> new_top,
      scaled_new_x |-> scaled_xstep * gfi.left,
      scaled_new_y |-> scaled_ystep * gfi.top,
      y_delta |-> 0, out_data |-> 0,
      new_data |-> [k \in 1 .. new_width * new_height |-> 0],
      written |-> {}, outside |-> {}]

\* lines 389-406 and 421: the test of the row loop and the head of its body
ScaleRow(s, gfi) ==
  IF s.j >= gfi.height
    THEN [s EXCEPT !.pc = "install"]
    ELSE LET scaled_new_y == SnapLast(s.j, gfi.height,
                                      s.scaled_new_y + s.scaled_ystep, s.new_bottom)
         IN IF scaled_new_y < SCALE(s.new_y + 1)
              THEN [s EXCEPT !.scaled_new_y = scaled_new_y, !.j = @ + 1]
              ELSE [s EXCEPT !.scaled_new_y = scaled_new_y,
                             !.y_delta = UNSCALE(scaled_new_y - SCALE(s.new_y)),
                             !.new_x = s.new_left,
                             !.scaled_new_x = s.scaled_xstep * gfi.left,
                             !.out_data = (s.new_y - s.new_top) * s.new_width,
                             !.i = 0,
                             !.pc = "col"]

\* lines 408-420: the test of the column loop, one pass of its body, and the
\* end of the row's body.  new_data is indexed from 1: byte out_data[k] of the
\* code is new_data[out_data + k + 1].  A write outside the destination's rows
\* or columns is recorded in outside.
ScaleCol(s, gfi) ==
  IF s.i >= gfi.width
    THEN [s EXCEPT !.new_y = @ + s.y_delta, !.j = @ + 1, !.pc = "row"]
    ELSE LET scaled_new_x == SnapLast(s.i, gfi.width,
                                      s.scaled_new_x + s.scaled_xstep, s.new_right)
             x_delta == UNSCALE(scaled_new_x - SCALE(s.new_x))
             n == IF x_delta > 0 THEN x_delta ELSE 0
             cells == (0 .. n - 1) \X (0 .. s.y_delta - 1)
             Index(c) == s.out_data + c[1] + c[2] * s.new_width + 1
             Row(c) == (s.new_y - s.new_top) + c[2]
             Col(c) == (s.new_x - s.new_left) + c[1]
             hit == {Index(c) : c \in cells} \cap DOMAIN s.new_data
         IN [s EXCEPT !.scaled_new_x = scaled_new_x,
                      !.new_x = @ + n,
                      !.out_data = @ + n,
                      !.i = @ + 1,
                      !.new_data = [k \in DOMAIN @ |->
                                      IF k \in hit THEN Pixel(gfi, s.j, s.i) ELSE @[k]],
                      !.written = @ \cup hit,
                      !.outside = @ \cup {<<Row(c), Col(c)>> : c \in
                                    {d \in cells : \/ Row(d) >= s.new_height
                                                   \/ Col(d) >= s.new_width}}]

\* lines 423-433
ScaleInstall(s, gfi) ==
  LET sized == [gfi EXCEPT !.compressed = FALSE,
                           !.width = s.new_width, !.height = s.new_height,
                           !.left = InstalledEdge(s.scaled_xstep, gfi.left),
                           !.top = InstalledEdge(s.scaled_ystep, gfi.top)]
      set == SetUncompressedImage(sized, s.new_data)
  IN IF s.was_compressed THEN CompressedOnly(set) ELSE set

\* the loops of lines 389-421 run to their end
RECURSIVE ScaleLoops(_, _)
ScaleLoops(s, gfi) ==
  IF s.pc = "row" THEN ScaleLoops(ScaleRow(s, gfi), gfi)
  ELSE IF s.pc = "col" THEN ScaleLoops(ScaleCol(s, gfi), gfi)
  ELSE s

\* scale_image(gfs, gfi, xfactor, yfactor): the locals at its end and the image
ScaleImage(gfi, xfactor, yfactor) ==
  LET entered == ScaleEnter(gfi, xfactor, yfactor)
      src == IF entered.was_compressed THEN Uncompress(gfi) ELSE gfi
      s == ScaleLoops(entered, src)
  IN IF entered.pc = "fatal"
       THEN [s |-> entered, gfi |-> gfi]
       ELSE [s |-> [s EXCEPT !.pc = "returned"], gfi |-> ScaleInstall(s, src)]

Factors == {[num |-> n, den |-> d] : n \in 1 .. MaxTarget, d \in 1 .. MaxDim + MaxOff}

ScaleCall ==
  /\ sc.pc = "idle"
  /\ \E xfactor \in Factors, yfactor \in Factors :
       LET gfi == gfs.images[1]
           entered == ScaleEnter(gfi, xfactor, yfactor)
       IN /\ sc' = entered
          /\ gfs' = [gfs EXCEPT !.images[1] =
                       IF entered.was_compressed /\ entered.pc # "fatal"
                         THEN Uncompress(gfi) ELSE gfi]
          /\ diag' = [diag EXCEPT !.fatal = (entered.pc = "fatal")]
  /\ UNCHANGED <<gfs0, crop_call, rot_hist, rs>>
  /\ UNCHANGED <<xformVars, cmap, pipe, tmp_file, hist>>

ScaleRowStep ==
  /\ sc.pc = "row"
  /\ sc' = ScaleRow(sc, gfs.images[1])
  /\ UNCHANGED <<gfs, gfs0, crop_call, rot_hist, rs>>
  /\ UNCHANGED outsideGeo

ScaleColStep ==
  /\ sc.pc = "col"
  /\ sc' = ScaleCol(sc, gfs.images[1])
  /\ UNCHANGED <<gfs, gfs0, crop_call, rot_hist, rs>>
  /\ UNCHANGED outsideGeo

ScaleReturn ==
  /\ sc.pc = "install"
  /\ gfs' = [gfs EXCEPT !.images[1] = ScaleInstall(sc, gfs.images[1])]
  /\ sc' = [sc EXCEPT !.pc = "returned"]
  /\ UNCHANGED <<gfs0, crop_call, rot_hist, rs>>
  /\ UNCHANGED outsideGeo

ScaleInit ==
  /\ XformUnused /\ PipeUnused
  /\ \E gfi \in Images \cup {CompressedOnly(g) : g \in Images} :
       gfs = [screen_width |-> gfi.left + gfi.width,
              screen_height |-> gfi.top + gfi.height, images |-> <<gfi>>]
  /\ gfs0 = gfs
  /\ crop_call = [pc |-> "unused"]
  /\ rot_hist = <<>>
  /\ rs = [pc |-> "unused"]
  /\ sc = [pc |-> "idle"]

ScaleNext == ScaleCall \/ ScaleRowStep \/ ScaleColStep \/ ScaleReturn

ScaleSpec == ScaleInit /\ [][ScaleNext]_vars

\* C10: the loops of scale_image write every cell of the new_width x
\* new_height buffer, write no cell at a row >= new_height or a column >=
\* new_width, never move new_x past new_right or new_y past new_bottom, and
\* leave new_x = new_right after the last source column of a row they convert
\* and new_y = new_bottom after the last source row.
C10_ScanConversion ==
  /\ sc.pc \in {"row", "col", "install", "returned"} =>
       /\ sc.outside = {}
       /\ sc.new_x <= sc.new_right
       /\ sc.new_y <= sc.new_bottom
  /\ (sc.pc = "col" /\ sc.i = gfs.images[1].width) => sc.new_x = sc.new_right
  /\ sc.pc \in {"install", "returned"} =>
       /\ sc.new_y = sc.new_bottom
       /\ sc.written = 1 .. sc.new_width * sc.new_height

\* a frame scaled down to a clamped width of 1 and scaled up in height
C10_Witness ==
  /\ sc.pc = "returned"
  /\ UNSCALE(sc.scaled_xstep * (gfs0.images[1].left + gfs0.images[1].width))
       = UNSCALE(sc.scaled_xstep * gfs0.images[1].left)
  /\ sc.scaled_ystep > SCALE_FACTOR
  /\ gfs0.images[1].height > 1
  /\ sc.written = 1 .. sc.new_width * sc.new_height

(***************************************************************************)
(* resize_stream                                                           *)
(***************************************************************************)
\* the larger of two ints
Max2(a, b) == IF a < b THEN b ELSE a

RECURSIVE Extent(_, _)
\* the right (horizontal) or bottom edge of the union of the frames
Extent(images, horizontal) ==
  IF images = <<>> THEN 0
  ELSE Max2(IF horizontal THEN Head(images).left + Head(images).width
                          ELSE Head(images).top + Head(images).height,
            Extent(Tail(images), horizontal))

\* Gif_CalculateScreenSize(gfs, 0): the screen grows to hold every frame
Gif_CalculateScreenSize(s) ==
  [s EXCEPT !.screen_width = Max2(@, Extent(s.images, TRUE)),
            !.screen_height = Max2(@, Extent(s.images, FALSE))]

\* (double) num / den, kept as a fraction
Factor(num, den) == [num |-> num, den |-> den]

\* a < b for two factors with positive denominators
Less(a, b) == a.num * b.den < b.num * a.den

\* (int) (k * factor + 0.5), for k * factor >= 0
Round(k, factor) == (2 * k * factor.num + factor.den) \div (2 * factor.den)

\* the no-op under fit taken when either axis is large enough
FitNoopEitherAxis(fit, new_width, new_height, screen_width, screen_height) ==
  fit /\ (new_width >= screen_width \/ new_height >= screen_height)

\* the test of line 457
FitNoop(fit, new_width, new_height, screen_width, screen_height) ==
  fit /\ new_width >= screen_width /\ new_height >= screen_height

\* lines 443-466 on the stream s (after Gif_CalculateScreenSize): the factors
\* and the target applied, or the return with nothing done.  req_width and
\* req_height are the arguments, box_width, box_height, xfactor0 and yfactor0
\* the values after lines 446-455.
ResizeEnter(s, req_width, req_height, fit) ==
  LET sw == s.screen_width
      sh == s.screen_height
      xf == Factor(req_width, sw)
      yf == Factor(req_height, sh)
      xfactor0 == IF req_width <= 0 THEN yf ELSE xf
      box_width == IF req_width <= 0 THEN Round(sw, xfactor0) ELSE req_width
      yfactor0 == IF req_width > 0 /\ req_height <= 0 THEN xf ELSE yf
      box_height == IF req_width > 0 /\ req_height <= 0
                      THEN Round(sh, yfactor0) ELSE req_height
      neither == req_width <= 0 /\ req_height <= 0
      noop == FitNoop(fit, box_width, box_height, sw, sh)
      shrink_y == fit /\ Less(xfactor0, yfactor0)
      shrink_x == fit /\ ~Less(xfactor0, yfactor0) /\ Less(yfactor0, xfactor0)
      yfactor == IF shrink_y THEN xfactor0 ELSE yfactor0
      xfactor == IF shrink_x THEN yfactor0 ELSE xfactor0
  IN [pc |-> IF neither \/ noop THEN "returned" ELSE "loop",
      scaled |-> FALSE,
      req_width |-> req_width, req_height |-> req_height, fit |-> fit,
      xfactor0 |-> xfactor0, yfactor0 |-> yfactor0,
      box_width |-> box_width, box_height |-> box_height,
      xfactor |-> xfactor, yfactor |-> yfactor,
      new_width |-> IF shrink_x THEN Round(sw, xfactor) ELSE box_width,
      new_height |-> IF shrink_y THEN Round(sh, yfactor) ELSE box_height,
      i |-> 0]

ResizeCall ==
  /\ rs.pc = "idle"
  /\ \E new_width \in 0 .. MaxTarget, new_height \in 0 .. MaxTarget, fit \in BOOLEAN :
       LET s == Gif_CalculateScreenSize(gfs)
       IN /\ gfs' = s
          /\ rs' = ResizeEnter(s, new_width, new_height, fit)
  /\ gfs0' = gfs
  /\ UNCHANGED <<crop_call, rot_hist, sc>>
  /\ UNCHANGED outsideGeo

\* one pass of the loop of lines 468-469
ResizeScale ==
  /\ rs.pc = "loop"
  /\ rs.i < Len(gfs.images)
  /\ LET r == ScaleImage(gfs.images[rs.i + 1], rs.xfactor, rs.yfactor)
     IN /\ gfs' = [gfs EXCEPT !.images[rs.i + 1] = r.gfi]
        /\ sc' = r.s
        /\ rs' = IF r.s.pc = "fatal" THEN [rs EXCEPT !.pc = "exit"]
                                     ELSE [rs EXCEPT !.i = @ + 1]
        /\ diag' = [diag EXCEPT !.fatal = (r.s.pc = "fatal")]
  /\ UNCHANGED <<gfs0, crop_call, rot_hist>>
  /\ UNCHANGED <<xformVars, cmap, pipe, tmp_file, hist>>

\* lines 471-472
ResizeFinish ==
  /\ rs.pc = "loop"
  /\ rs.i >= Len(gfs.images)
  /\ gfs' = [gfs EXCEPT !.screen_width = rs.new_width, !.screen_height = rs.new_height]
  /\ rs' = [rs EXCEPT !.pc = "returned", !.scaled = TRUE]
  /\ UNCHANGED <<gfs0, crop_call, rot_hist, sc>>
  /\ UNCHANGED outsideGeo

\* a lies to the left of b, or above it
Precedes(a, b) ==
  \/ a.left + a.width <= b.left
  \/ a.top + a.height <= b.top

\* streams of one frame, held uncompressed or in compressed form only, and of
\* two frames placed side by side or one above the other
Streams ==
  {[screen_width |-> sw, screen_height |-> sh, images |-> images] :
     sw \in 1 .. MaxDim + MaxOff, sh \in 1 .. MaxDim + MaxOff,
     images \in {<<a>> : a \in Images \cup {CompressedOnly(g) : g \in Images}}
                  \cup {p \in Images \X Images : Precedes(p[1], p[2])}}

ResizeInit ==
  /\ XformUnused /\ PipeUnused
  /\ gfs \in {s \in Streams : /\ Extent(s.images, TRUE) <= s.screen_width
                              /\ Extent(s.images, FALSE) <= s.screen_height}
  /\ gfs0 = gfs
  /\ crop_call = [pc |-> "unused"]
  /\ rot_hist = <<>>
  /\ rs = [pc |-> "idle"]
  /\ sc = [pc |-> "idle"]

ResizeNext == ResizeCall \/ ResizeScale \/ ResizeFinish

ResizeSpec == ResizeInit /\ [][ResizeNext]_vars

\* the resize_stream call has returned after scaling the frames
Resized == rs.pc = "returned" /\ rs.scaled

\* C1: a resize_stream call introduces no new gap or overlap between two
\* frames: where frame a's right edge met (or lay left of) frame b's left
\* edge before the call it does so after it, and likewise for a's bottom edge
\* and b's top edge, including when a frame's scaled width or height is
\* clamped up to 1.
C1_NoNewGapsOrOverlaps ==
  Resized =>
    \A m \in 1 .. Len(gfs0.images), n \in 1 .. Len(gfs0.images) :
      LET a0 == gfs0.images[m]
          b0 == gfs0.images[n]
          a == gfs.images[m]
          b == gfs.images[n]
      IN /\ a0.left + a0.width = b0.left => a.left + a.width = b.left
         /\ a0.left + a0.width <= b0.left => a.left + a.width <= b.left
         /\ a0.top + a0.height = b0.top => a.top + a.height = b.top
         /\ a0.top + a0.height <= b0.top => a.top + a.height <= b.top

\* C8: after a resize_stream call that scales a stream whose frames all lay
\* within the screen, every frame lies within the screen (left + width <=
\* screen_width, top + height <= screen_height) and the screen is at least
\* 1 x 1.
C8_FramesWithinScreen ==
  (/\ Resized
   /\ Extent(gfs0.images, TRUE) <= gfs0.screen_width
   /\ Extent(gfs0.images, FALSE) <= gfs0.screen_height) =>
    /\ \A n \in 1 .. Len(gfs.images) :
         /\ gfs.images[n].left + gfs.images[n].width <= gfs.screen_width
         /\ gfs.images[n].top + gfs.images[n].height <= gfs.screen_height
    /\ gfs.screen_width >= 1
    /\ gfs.screen_height >= 1

====
